---- MODULE Spec2Model ----
(***************************************************************************)
(* astro-auto-load: the request-scoped loader registry (registry.ts) and   *)
(* the lazy loader executor with registry-stability detection              *)
(* (LazyLoaderExecutor).  The event loop is modelled as it schedules the   *)
(* code: a setImmediate callback together with the microtasks it triggers  *)
(* is one step; producers settle whenever their own I/O completes.         *)
(***************************************************************************)
EXTENDS Integers, Sequences, FiniteSets, TLC

\* ---------------------------------------------------------------- bounds
MaxCalls == 2           \* getData calls issued in one request
MaxTasks == 2           \* asynchronous execution contexts
MaxScopes == 2          \* initializeRequestRegistry invocations
MaxDedupeCalls == 3     \* dedupe calls
MaxInstances == 2       \* promiseDedupe instances

\* ---------------------------------------------------------------- values
Ids == {"A", "B"}
Producers == {"p1", "p2"}
NoLoader == "none"
Scopes == 1..MaxScopes
Tasks == 1..MaxTasks
NoStore == 0
NoRef == <<"none", 0>>
ExecTask == 1
\* console of a run whose output nobody observes
NotCaptured == {<<0, "off", "off">>}
\* samples of a run whose stability loops are not traced
NotSampled == <<<<-1>>>>
\* options without an extend function
NoExtend == [absent |-> "extend"]

requiredStableChecks == 3

VARIABLES
    \* registry.ts
    registries,        \* scope -> (id -> producer), one Map per initializeRequestRegistry
    nScopes,           \* number of Maps created so far
    ctx,               \* task -> stack of AsyncLocalStorage stores (<<>> = task not started)
    regLog,            \* history: <<scope the caller of registerLoader runs in, id>>
    console,           \* captured console.log lines of registerLoader: <<scope, id, loader>>
    \* LazyLoaderExecutor
    execRegistry,      \* this.registry: the scope whose Map the executor holds (0 = detached)
    results,           \* this.results
    errors,            \* this.errors
    requestedLoaders,  \* this.requestedLoaders
    batchPromise,      \* this.batchPromise: index into batches, 0 = null
    isBatchScheduled,  \* this.isBatchScheduled
    batches,           \* every promise waitForRegistryStability().then(executeBatch) created
    calls,             \* every getData call: its id, the promise it awaits, its outcome
    invoked,           \* id -> number of times the producer was called
    inflight,          \* producers called and not yet settled: <<id, n, batch>>
    immQ,              \* pending setImmediate callbacks, in FIFO order (batch indices)
    context,           \* this.context: index into contexts, 0 = no executor
    passed,            \* history: every loader(context) call: [id, n, loader, context]
    samples,           \* history: batch -> the registry sizes its stability loop read
    eager,             \* every executeAll and awaitAll call: [op, batch, state]
    \* autoLoadMiddleware
    handled,           \* every request the middleware handled: [url, autoLoad, registry, next]
    \* context.ts and dedupe
    contexts,          \* every Context object createLoaderContext has returned
    nDedupe,           \* number of promiseDedupe() instances created
    cache,             \* instance -> (key -> promise), the Map of each dedupe instance
    promises,          \* every promise an fn() call returned: [fn, state]
    dcalls,            \* history: every dedupe call: [inst, key, fn, promise]
    extendCalls,       \* history: number of times an extend function was called
    \* runAllLoadersForRequest
    run,               \* the call: its registry snapshot, loader promises and outcome
    \* discoverComponentTree
    visited,           \* the visited Set shared by the recursive calls
    stack,             \* the calls in progress: [filePath, components, children left]
    returned,          \* the array the outermost call returned
    reads,             \* history: filePath -> number of readFile calls
    skipped            \* history: calls that found their file visited: <<file, when>>

regVars == <<registries, nScopes, ctx, regLog, console>>
ctxVars == <<contexts, nDedupe, cache, promises, dcalls, extendCalls>>
entryVars == <<run, eager, handled>>
treeVars == <<visited, stack, returned, reads, skipped>>
execVars == <<execRegistry, results, errors, requestedLoaders, batchPromise,
              isBatchScheduled, batches, calls, invoked, inflight, immQ,
              context, passed, samples, ctxVars, entryVars, treeVars>>
vars == <<registries, nScopes, ctx, regLog, console, execRegistry, results, errors,
          requestedLoaders, batchPromise, isBatchScheduled, batches, calls,
          invoked, inflight, immQ, context, passed, samples, contexts, nDedupe, cache,
          promises, dcalls, extendCalls, run, eager, handled, visited, stack, returned,
          reads, skipped>>

\* ------------------------------------------------------------ registry.ts
EmptyMap == [id \in Ids |-> NoLoader]

Keys(m) == {id \in Ids : m[id] # NoLoader}

Size(m) == Cardinality(Keys(m))

\* The scope in whose dynamic extent task t currently runs (top of its stack).
ScopeOf(t) == IF ctx[t] = <<>> THEN NoStore ELSE ctx[t][Len(ctx[t])]

\* requestStorage.getStore(), falling back to the newest Map when no store is set
getStoreFallback(t) == IF ScopeOf(t) = NoStore THEN nScopes ELSE ScopeOf(t)

\* requestStorage.getStore() replaced by a module-level "current registry"
getStoreGlobal(t) == nScopes

\* requestStorage.getStore(): the store of the calling execution context
getStore(t) == ScopeOf(t)

\* getRegistry() handing out a new Map on every call
getRegistryFresh(t) == EmptyMap

\* getRegistry(): the active Map, or a new empty Map
getRegistry(t) == IF getStore(t) = NoStore THEN EmptyMap ELSE registries[getStore(t)]

\* registerLoader without the has() check: the last writer wins
registerLoaderOverwrite(t, id, p) ==
    LET s == getStore(t) IN
    IF s = NoStore THEN registries
    ELSE [registries EXCEPT ![s][id] = p]

\* registerLoader(moduleUrl, loader): the registries after the call
registerLoader(t, id, p) ==
    LET s == getStore(t) IN
    IF s = NoStore THEN registries
    ELSE IF registries[s][id] # NoLoader THEN registries
    ELSE [registries EXCEPT ![s][id] = p]

\* registerLoader(moduleUrl, loader): the console after the call (the "already
\* registered, skipping" line), when the console is captured
registerLoaderLog(t, id, p) ==
    LET s == getStore(t) IN
    IF console = NotCaptured \/ s = NoStore THEN console
    ELSE IF registries[s][id] # NoLoader THEN console \cup {<<s, id, p>>}
    ELSE console

Started(t) == ctx[t] # <<>>

\* initializeRequestRegistry(callback): new Map, callback entered with it as store
InitializeRequestRegistry(t) ==
    /\ Started(t)
    /\ nScopes < MaxScopes
    /\ nScopes' = nScopes + 1
    /\ registries' = [registries EXCEPT ![nScopes + 1] = EmptyMap]
    /\ ctx' = [ctx EXCEPT ![t] = Append(@, nScopes + 1)]
    /\ UNCHANGED <<regLog, console>>
    /\ UNCHANGED execVars

\* requestStorage.run returns: the callback's synchronous part is over
CallbackReturn(t) ==
    /\ Len(ctx[t]) > 1
    /\ ctx' = [ctx EXCEPT ![t] = SubSeq(@, 1, Len(@) - 1)]
    /\ UNCHANGED <<registries, nScopes, regLog, console>>
    /\ UNCHANGED execVars

\* An asynchronous continuation created by t: it runs with the store t had
\* (u is the next unused execution context)
Continuation(t, u) ==
    /\ Started(t)
    /\ ~Started(u)
    /\ \A v \in Tasks : v < u => Started(v)
    /\ ctx' = [ctx EXCEPT ![u] = <<ScopeOf(t)>>]
    /\ UNCHANGED <<registries, nScopes, regLog, console>>
    /\ UNCHANGED execVars

RegisterLoader(t, id, p) ==
    /\ Started(t)
    /\ registries' = registerLoader(t, id, p)
    /\ console' = registerLoaderLog(t, id, p)
    /\ regLog' = regLog \cup {<<ScopeOf(t), id>>}
    /\ UNCHANGED <<nScopes, ctx>>
    /\ UNCHANGED execVars

\* ------------------------------------------------------ context.ts, dedupe
Params == {[id |-> "1"], [id |-> "2"]}
Requests == {[url |-> "http://localhost/a"], [url |-> "http://localhost/b"]}
\* extend: absent, adding a field, or returning a field named like a base field
Extends == {NoExtend, [db |-> "db"], [params |-> [id |-> "9"]]}

DKeys == {"k1", "k2"}
Fns == {"f", "g"}
NoPromise == 0
EmptyCache == [key \in DKeys |-> NoPromise]

DefaultOptions ==
    [params |-> [id |-> "1"], request |-> [url |-> "http://localhost/a"],
     extend |-> NoExtend]

\* new URL(request.url)
URL(href) == [href |-> href]

\* a merge that protects the target's own fields: source only adds new ones
ObjectAssignProtected(target, source) ==
    [f \in DOMAIN target \cup DOMAIN source |->
        IF f \in DOMAIN target THEN target[f] ELSE source[f]]

\* Object.assign(target, source)
ObjectAssign(target, source) ==
    [f \in DOMAIN target \cup DOMAIN source |->
        IF f \in DOMAIN source THEN source[f] ELSE target[f]]

\* createLoaderContext(options); inst is the instance promiseDedupe() returns
createLoaderContext(options, inst) ==
    LET base == [params |-> options.params, url |-> URL(options.request.url),
                 request |-> options.request, dedupe |-> inst]
    IN IF options.extend # NoExtend THEN ObjectAssign(base, options.extend)
       ELSE base

\* createLoaderContext(options): the number of extend() calls it makes
extendCallsOf(options) == IF options.extend # NoExtend THEN 1 ELSE 0

\* No Context, no dedupe instance and no promise exists yet
NoContexts ==
    /\ contexts = <<>>
    /\ nDedupe = 0
    /\ cache = <<>>
    /\ promises = <<>>
    /\ dcalls = <<>>
    /\ extendCalls = 0

\* createLoaderExecutor has built the executor's Context from DefaultOptions
DefaultContext ==
    /\ contexts = <<createLoaderContext(DefaultOptions, 1)>>
    /\ nDedupe = 1
    /\ cache = <<EmptyCache>>
    /\ promises = <<>>
    /\ dcalls = <<>>
    /\ extendCalls = 0

\* cache.has(key), answering only once the stored promise has settled
cacheHasSettled(inst, key) ==
    /\ cache[inst][key] # NoPromise
    /\ promises[cache[inst][key]].state # "pending"

\* cache.has(key), forgetting a promise that rejected
cacheHasFulfilled(inst, key) ==
    /\ cache[inst][key] # NoPromise
    /\ promises[cache[inst][key]].state # "rejected"

\* cache.has(key)
cacheHas(inst, key) == cache[inst][key] # NoPromise

\* the Map a dedupe function uses, were it one module-level Map
cacheOfModule(inst) == 1

\* the Map a dedupe function uses: the one created by its own promiseDedupe() call
cacheOf(inst) == inst

\* what the caller of dedupe finds under the key
Saw(inst, key) ==
    IF cache[inst][key] = NoPromise THEN "miss" ELSE promises[cache[inst][key]].state

\* promiseDedupe(): a new Map and the dedupe function closed over it
PromiseDedupe ==
    /\ nDedupe < MaxInstances
    /\ nDedupe' = nDedupe + 1
    /\ cache' = Append(cache, EmptyCache)
    /\ UNCHANGED <<contexts, promises, dcalls, extendCalls>>
    /\ UNCHANGED <<regVars, execRegistry, results, errors, requestedLoaders,
                   batchPromise, isBatchScheduled, batches, calls, invoked, inflight,
                   immQ, context, passed, samples, entryVars, treeVars>>

\* dedupe(key, fn) on instance inst; fn is an async function, so fn() returns a
\* pending promise
Dedupe(inst, key, fn) ==
    /\ inst \in 1..nDedupe
    /\ Len(dcalls) < MaxDedupeCalls
    /\ LET m == cacheOf(inst)
           np == Len(promises) + 1
       IN IF ~cacheHas(m, key)
          THEN /\ promises' = Append(promises, [fn |-> fn, state |-> "pending"])
               /\ cache' = [cache EXCEPT ![m][key] = np]
               /\ dcalls' = Append(dcalls, [inst |-> inst, key |-> key, fn |-> fn,
                                            promise |-> np, saw |-> Saw(m, key)])
          ELSE /\ UNCHANGED <<promises, cache>>
               /\ dcalls' = Append(dcalls, [inst |-> inst, key |-> key, fn |-> fn,
                                            promise |-> cache[m][key],
                                            saw |-> Saw(m, key)])
    /\ UNCHANGED <<contexts, nDedupe, extendCalls>>
    /\ UNCHANGED <<regVars, execRegistry, results, errors, requestedLoaders,
                   batchPromise, isBatchScheduled, batches, calls, invoked, inflight,
                   immQ, context, passed, samples, entryVars, treeVars>>

\* The promise an fn() call returned fulfils or rejects
SettlePromise(q, ok) ==
    /\ q \in DOMAIN promises
    /\ promises[q].state = "pending"
    /\ promises' = [promises EXCEPT ![q].state = IF ok THEN "fulfilled" ELSE "rejected"]
    /\ UNCHANGED <<contexts, nDedupe, cache, dcalls, extendCalls>>
    /\ UNCHANGED <<regVars, execRegistry, results, errors, requestedLoaders,
                   batchPromise, isBatchScheduled, batches, calls, invoked, inflight,
                   immQ, context, passed, samples, entryVars, treeVars>>

\* discoverComponentTree has not been called
MaxFiles == 3
Files == 1..MaxFiles
NotReturned == <<0>>

NoDiscovery ==
    /\ visited = {}
    /\ stack = <<>>
    /\ returned = NotReturned
    /\ reads = [f \in Files |-> 0]
    /\ skipped = {}

\* runAllLoadersForRequest has not been called
NoRun ==
    [state |-> "idle", entries |-> EmptyMap, context |-> 0, pending |-> {},
     values |-> [id \in Ids |-> NoRef], failed |-> {}, error |-> NoRef,
     dataByModule |-> [id \in Ids |-> NoRef]]

NoEntry ==
    /\ run = NoRun
    /\ eager = <<>>
    /\ handled = <<>>
    /\ NoDiscovery

RegInit ==
    /\ registries = [s \in Scopes |-> EmptyMap]
    /\ nScopes = 0
    /\ ctx = [t \in Tasks |-> IF t = 1 THEN <<NoStore>> ELSE <<>>]
    /\ regLog = {}
    /\ console = NotCaptured
    /\ execRegistry = 0
    /\ results = [id \in Ids |-> NoRef]
    /\ errors = [id \in Ids |-> NoRef]
    /\ requestedLoaders = {}
    /\ batchPromise = 0
    /\ isBatchScheduled = FALSE
    /\ batches = <<>>
    /\ calls = <<>>
    /\ invoked = [id \in Ids |-> 0]
    /\ inflight = {}
    /\ immQ = <<>>
    /\ context = 0
    /\ passed = {}
    /\ samples = NotSampled
    /\ NoContexts
    /\ NoEntry

RegNext ==
    \/ \E t \in Tasks : InitializeRequestRegistry(t)
    \/ \E t \in Tasks : CallbackReturn(t)
    \/ \E t \in Tasks, u \in Tasks : Continuation(t, u)
    \/ \E t \in Tasks, id \in Ids, p \in Producers : RegisterLoader(t, id, p)

RegSpec == RegInit /\ [][RegNext]_vars

\* dedupe on its own: instances are created, called and their promises settle
DedupeNext ==
    \/ PromiseDedupe
    \/ \E inst \in 1..MaxInstances, key \in DKeys, fn \in Fns : Dedupe(inst, key, fn)
    \/ \E q \in 1..MaxDedupeCalls, ok \in BOOLEAN : SettlePromise(q, ok)

DedupeSpec == RegInit /\ [][DedupeNext]_vars

\* ---------------------------------------------------------------------------
\* The function-keyed dedupe of src/runtime/dedupe.ts: dedupe(fn, ...args)
\* ---------------------------------------------------------------------------

\* Function objects: their identity and their name property. An arrow function
\* written in the argument position of a call has the name ""
FnObjects ==
    {[ref |-> 1, name |-> "fetchStory"], [ref |-> 2, name |-> ""],
     [ref |-> 3, name |-> ""]}

\* Argument values
JSValues ==
    {[type |-> "string", value |-> "1"], [type |-> "null", value |-> ""],
     [type |-> "undefined", value |-> ""]}

\* Argument lists: dedupe(fn) and dedupe(fn, v)
ArgLists == {<<>>} \cup {<<v>> : v \in JSValues}

\* JSON.stringify of an array element, as the pieces of the resulting string:
\* undefined is written as null inside an array
JSONValue(v) ==
    IF v.type = "string" THEN <<"\"", v.value, "\"">> ELSE <<"null">>

RECURSIVE JSONElements(_)
JSONElements(args) ==
    IF args = <<>> THEN <<>>
    ELSE IF Len(args) = 1 THEN JSONValue(args[1])
    ELSE JSONValue(args[1]) \o <<",">> \o JSONElements(Tail(args))

\* JSON.stringify(args)
JSONStringify(args) == <<"[">> \o JSONElements(args) \o <<"]">>

\* keyFrom(fn, args)
keyFrom(fn, args) == <<fn.name, ":">> \o JSONStringify(args)

FnKeys == {keyFrom(fn, args) : fn \in FnObjects, args \in ArgLists}

EmptyFnCache == [key \in FnKeys |-> NoPromise]

\* promiseDedupe(): the request's dedupe function and its new Map
FnPromiseDedupe ==
    /\ nDedupe = 0
    /\ nDedupe' = nDedupe + 1
    /\ cache' = Append(cache, EmptyFnCache)
    /\ UNCHANGED <<contexts, promises, dcalls, extendCalls>>
    /\ UNCHANGED <<regVars, execRegistry, results, errors, requestedLoaders,
                   batchPromise, isBatchScheduled, batches, calls, invoked, inflight,
                   immQ, context, passed, samples, entryVars, treeVars>>

\* dedupe(fn, ...args) on instance inst; fn(...args) returns a pending promise
FnDedupe(inst, fn, args) ==
    /\ inst \in 1..nDedupe
    /\ Len(dcalls) < MaxDedupeCalls
    /\ LET key == keyFrom(fn, args)
           np == Len(promises) + 1
       IN IF ~cacheHas(inst, key)
          THEN /\ promises' = Append(promises, [fn |-> fn, args |-> args,
                                                state |-> "pending"])
               /\ cache' = [cache EXCEPT ![inst][key] = np]
               /\ dcalls' = Append(dcalls, [inst |-> inst, key |-> key, fn |-> fn,
                                            args |-> args, promise |-> np,
                                            saw |-> Saw(inst, key)])
          ELSE /\ UNCHANGED <<promises, cache>>
               /\ dcalls' = Append(dcalls, [inst |-> inst, key |-> key, fn |-> fn,
                                            args |-> args, promise |-> cache[inst][key],
                                            saw |-> Saw(inst, key)])
    /\ UNCHANGED <<contexts, nDedupe, extendCalls>>
    /\ UNCHANGED <<regVars, execRegistry, results, errors, requestedLoaders,
                   batchPromise, isBatchScheduled, batches, calls, invoked, inflight,
                   immQ, context, passed, samples, entryVars, treeVars>>

FnNext ==
    \/ FnPromiseDedupe
    \/ \E fn \in FnObjects, args \in ArgLists : FnDedupe(1, fn, args)
    \/ \E q \in 1..MaxDedupeCalls, ok \in BOOLEAN : SettlePromise(q, ok)

FnSpec == RegInit /\ [][FnNext]_vars


\* ------------------------------------------------------ LazyLoaderExecutor
\* this.registry: the Map captured by createLoaderExecutor (a live reference)
Registry == IF execRegistry = 0 THEN EmptyMap ELSE registries[execRegistry]

Has(store, id) == store[id] # NoRef

Undefined == [kind |-> "undefined", ref |-> NoRef]
Pending == [kind |-> "pending", ref |-> NoRef]

\* getData after the await, rejecting as soon as any loader of the request failed
GetDataOutcomeAnyError(id, res, err) ==
    IF \E x \in Ids : Has(err, x)
    THEN [kind |-> "rejected", ref |-> err[CHOOSE x \in Ids : Has(err, x)]]
    ELSE IF Has(res, id) THEN [kind |-> "resolved", ref |-> res[id]]
    ELSE Undefined

\* getData after the await, treating an id without data as an error
GetDataOutcomeStrict(id, res, err) ==
    IF Has(err, id) THEN [kind |-> "rejected", ref |-> err[id]]
    ELSE IF Has(res, id) THEN [kind |-> "resolved", ref |-> res[id]]
    ELSE [kind |-> "rejected", ref |-> <<id, 0>>]

\* getData after the await: throw errors.get(id), else return results.get(id)
GetDataOutcome(id, res, err) ==
    IF Has(err, id) THEN [kind |-> "rejected", ref |-> err[id]]
    ELSE IF Has(res, id) THEN [kind |-> "resolved", ref |-> res[id]]
    ELSE Undefined

\* executeBatch constructing a Context of its own for each batch
loaderContextPerBatch(k) == k

\* executeBatch: the Context handed to the loaders of batch k (this.context)
loaderContext(k) == context

\* waitForRegistryStability up to its first await
NewBatch(size) ==
    [phase |-> "collecting", pos |-> "quick", lastSize |-> size,
     stableCount |-> 0, i |-> 0, started |-> {}]

\* waitForRegistryStability whose while loop counts the samples that differ
StabilityStepInverted(b, size) ==
    IF b.pos = "quick" THEN
        IF size = b.lastSize /\ size > 0
        THEN [b EXCEPT !.pos = "for", !.i = 0]
        ELSE [b EXCEPT !.pos = "while"]
    ELSE IF b.pos = "for" THEN
        IF size # b.lastSize
        THEN [b EXCEPT !.lastSize = size, !.stableCount = 0, !.i = 0, !.pos = "while"]
        ELSE IF b.i + 1 < requiredStableChecks
             THEN [b EXCEPT !.stableCount = @ + 1, !.i = @ + 1]
             ELSE [b EXCEPT !.stableCount = @ + 1, !.i = @ + 1,
                            !.pos = IF b.stableCount + 1 >= requiredStableChecks
                                    THEN "done" ELSE "while"]
    ELSE
        IF size # b.lastSize
        THEN [b EXCEPT !.stableCount = @ + 1, !.lastSize = size,
                       !.pos = IF b.stableCount + 1 < requiredStableChecks
                               THEN "while" ELSE "done"]
        ELSE [b EXCEPT !.stableCount = 0]

\* waitForRegistryStability whose while loop keeps the count when the size changed
StabilityStepNoReset(b, size) ==
    IF b.pos = "quick" THEN
        IF size = b.lastSize /\ size > 0
        THEN [b EXCEPT !.pos = "for", !.i = 0]
        ELSE [b EXCEPT !.pos = "while"]
    ELSE IF b.pos = "for" THEN
        IF size # b.lastSize
        THEN [b EXCEPT !.lastSize = size, !.stableCount = 0, !.i = 0, !.pos = "while"]
        ELSE IF b.i + 1 < requiredStableChecks
             THEN [b EXCEPT !.stableCount = @ + 1, !.i = @ + 1]
             ELSE [b EXCEPT !.stableCount = @ + 1, !.i = @ + 1,
                            !.pos = IF b.stableCount + 1 >= requiredStableChecks
                                    THEN "done" ELSE "while"]
    ELSE
        IF size = b.lastSize
        THEN [b EXCEPT !.stableCount = @ + 1,
                       !.pos = IF b.stableCount + 1 < requiredStableChecks
                               THEN "while" ELSE "done"]
        ELSE [b EXCEPT !.stableCount = @ + 1, !.lastSize = size,
                       !.pos = IF b.stableCount + 1 < requiredStableChecks
                               THEN "while" ELSE "done"]

\* waitForRegistryStability resumed by one setImmediate callback with the registry
\* size it samples; pos = "done" when the function returns
StabilityStep(b, size) ==
    IF b.pos = "quick" THEN
        IF size = b.lastSize /\ size > 0
        THEN [b EXCEPT !.pos = "for", !.i = 0]
        ELSE [b EXCEPT !.pos = "while"]
    ELSE IF b.pos = "for" THEN
        IF size # b.lastSize
        THEN [b EXCEPT !.lastSize = size, !.stableCount = 0, !.i = 0, !.pos = "while"]
        ELSE IF b.i + 1 < requiredStableChecks
             THEN [b EXCEPT !.stableCount = @ + 1, !.i = @ + 1]
             ELSE [b EXCEPT !.stableCount = @ + 1, !.i = @ + 1,
                            !.pos = IF b.stableCount + 1 >= requiredStableChecks
                                    THEN "done" ELSE "while"]
    ELSE
        IF size = b.lastSize
        THEN [b EXCEPT !.stableCount = @ + 1,
                       !.pos = IF b.stableCount + 1 < requiredStableChecks
                               THEN "while" ELSE "done"]
        ELSE [b EXCEPT !.stableCount = 0, !.lastSize = size]

\* executeBatch awaiting one loader per batch: only the first pending entry is called
LoadersToInvokeFirst(reg, res, err) ==
    LET pend == {id \in Keys(reg) : ~Has(res, id) /\ ~Has(err, id)}
    IN IF pend = {} THEN {}
       ELSE {CHOOSE id \in pend : TRUE}

\* executeBatch running only the loaders some getData call has asked for
LoadersToInvokeRequested(reg, res, err) ==
    {id \in Keys(reg) : ~Has(res, id) /\ ~Has(err, id) /\ id \in requestedLoaders}

\* executeBatch: the registry entries whose loader is called
LoadersToInvoke(reg, res, err) ==
    {id \in Keys(reg) : ~Has(res, id) /\ ~Has(err, id)}

\* getData: the late-arrival reset condition
ShouldReset(id) == isBatchScheduled /\ ~Has(results, id) /\ ~Has(errors, id)

\* The calls awaiting batch k resume, each reading the stores as they are then
Resume(cs, k, res, err) ==
    [c \in DOMAIN cs |->
        IF cs[c].state = "awaiting" /\ cs[c].batch = k
        THEN [cs[c] EXCEPT !.state = "returned", !.batch = 0,
                           !.out = GetDataOutcome(cs[c].id, res, err)]
        ELSE cs[c]]

\* The awaitAll calls awaiting batch k resume
ResumeAll(es, k) ==
    [a \in DOMAIN es |->
        IF es[a].state = "awaiting" /\ es[a].batch = k
        THEN [es[a] EXCEPT !.state = "returned"]
        ELSE es[a]]

\* getData(moduleUrl) up to its await (and past it when the promise is settled);
\* limit caps the number of calls of the request
getData(id, limit) ==
    /\ Len(calls) < limit
    /\ requestedLoaders' = requestedLoaders \cup {id}
    /\ LET bp == IF ShouldReset(id) THEN 0 ELSE batchPromise
           nb == Len(batches) + 1
       IN IF bp = 0
          THEN /\ isBatchScheduled' = TRUE
               /\ batchPromise' = nb
               /\ batches' = Append(batches, NewBatch(Size(Registry)))
               /\ immQ' = Append(immQ, nb)
               /\ samples' = IF samples = NotSampled THEN samples
                             ELSE Append(samples, <<Size(Registry)>>)
               /\ calls' = Append(calls, [id |-> id, reg |-> id \in Keys(Registry),
                                          batch |-> nb, state |-> "awaiting",
                                          out |-> Pending])
          ELSE /\ UNCHANGED <<isBatchScheduled, batchPromise, batches, immQ, samples>>
               /\ calls' = Append(calls,
                    IF batches[bp].phase = "settled"
                    THEN [id |-> id, reg |-> id \in Keys(Registry), batch |-> 0,
                          state |-> "returned",
                          out |-> GetDataOutcome(id, results, errors)]
                    ELSE [id |-> id, reg |-> id \in Keys(Registry), batch |-> bp,
                          state |-> "awaiting", out |-> Pending])
    /\ UNCHANGED <<execRegistry, results, errors, invoked, inflight, context, passed>>
    /\ UNCHANGED <<regVars, ctxVars, entryVars, treeVars>>

\* One setImmediate callback: the oldest waiting stability loop samples the registry;
\* when the loop returns, executeBatch runs in the same macrotask
Tick ==
    /\ immQ # <<>>
    /\ samples' = IF samples = NotSampled THEN samples
                  ELSE [samples EXCEPT ![Head(immQ)] = Append(@, Size(Registry))]
    /\ LET k == Head(immQ)
           b == StabilityStep(batches[k], Size(Registry))
           inv == LoadersToInvoke(Registry, results, errors)
       IN IF b.pos # "done"
          THEN /\ batches' = [batches EXCEPT ![k] = b]
               /\ immQ' = Append(Tail(immQ), k)
               /\ UNCHANGED <<calls, invoked, inflight, passed>>
          ELSE /\ immQ' = Tail(immQ)
               /\ invoked' = [id \in Ids |-> IF id \in inv THEN invoked[id] + 1
                                             ELSE invoked[id]]
               /\ inflight' = inflight \cup {<<id, invoked[id] + 1, k>> : id \in inv}
               /\ passed' = passed \cup
                     {[id |-> id, n |-> invoked[id] + 1, loader |-> Registry[id],
                       context |-> loaderContext(k)] : id \in inv}
               /\ batches' = [batches EXCEPT ![k] =
                     [b EXCEPT !.started = inv, !.lastSize = 0, !.stableCount = 0,
                               !.i = 0,
                               !.phase = IF inv = {} THEN "settled" ELSE "executing"]]
               /\ calls' = IF inv = {} THEN Resume(calls, k, results, errors) ELSE calls
    /\ UNCHANGED <<execRegistry, results, errors, requestedLoaders, batchPromise,
                   isBatchScheduled, context>>
    /\ UNCHANGED <<regVars, ctxVars, entryVars, treeVars>>

\* Promise.race in place of Promise.all: the batch promise resolves with the first
\* execution that finishes
PromiseRaceDone(k, l) == TRUE

\* await Promise.all(executions) of batch k when execution l finishes: resolved once
\* no other execution of the batch is outstanding (an execution never rejects)
PromiseAllDone(k, l) == \A m \in inflight : m[3] = k => m = l

\* A loader's promise settles: the closure in executeBatch stores the outcome; the
\* last one of a batch resolves Promise.all and with it the batch promise
SettleLoader(l, ok) ==
    /\ l \in inflight
    /\ LET id == l[1]
           k == l[3]
           res == IF ok THEN [results EXCEPT ![id] = <<id, l[2]>>] ELSE results
           err == IF ok THEN errors ELSE [errors EXCEPT ![id] = <<id, l[2]>>]
           last == PromiseAllDone(k, l)
       IN /\ results' = res
          /\ errors' = err
          /\ inflight' = inflight \ {l}
          /\ batches' = IF last THEN [batches EXCEPT ![k].phase = "settled"] ELSE batches
          /\ calls' = IF last THEN Resume(calls, k, res, err) ELSE calls
          /\ eager' = IF last THEN ResumeAll(eager, k) ELSE eager
    /\ UNCHANGED <<execRegistry, requestedLoaders, batchPromise, isBatchScheduled,
                   invoked, immQ, context, passed, samples>>
    /\ UNCHANGED <<regVars, ctxVars, run, handled, treeVars>>

GetData(id) == getData(id, MaxCalls)

\* A component module evaluated during the request's render registers its loader
Register(id) ==
    /\ RegisterLoader(ExecTask, id, "p1")

\* The middleware has opened the request's scope and created the executor in it
Init ==
    /\ registries = [s \in Scopes |-> EmptyMap]
    /\ nScopes = 1
    /\ ctx = [t \in Tasks |-> IF t = ExecTask THEN <<NoStore, 1>> ELSE <<>>]
    /\ regLog = {}
    /\ console = NotCaptured
    /\ execRegistry = 1
    /\ results = [id \in Ids |-> NoRef]
    /\ errors = [id \in Ids |-> NoRef]
    /\ requestedLoaders = {}
    /\ batchPromise = 0
    /\ isBatchScheduled = FALSE
    /\ batches = <<>>
    /\ calls = <<>>
    /\ invoked = [id \in Ids |-> 0]
    /\ inflight = {}
    /\ immQ = <<>>
    /\ context = 1
    /\ passed = {}
    /\ samples = NotSampled
    /\ DefaultContext
    /\ NoEntry

Next ==
    \/ \E id \in Ids : Register(id)
    \/ \E id \in Ids : GetData(id)
    \/ Tick
    \/ \E l \in inflight, ok \in BOOLEAN : SettleLoader(l, ok)

Spec == Init /\ [][Next]_vars

\* The request after its first batch has settled: A was registered and requested, its
\* producer ran once and succeeded or failed; MaxCalls further getData calls follow
LateInit ==
    /\ registries = [s \in Scopes |-> IF s = 1 THEN [EmptyMap EXCEPT !["A"] = "p1"]
                                      ELSE EmptyMap]
    /\ nScopes = 1
    /\ ctx = [t \in Tasks |-> IF t = ExecTask THEN <<NoStore, 1>> ELSE <<>>]
    /\ regLog = {<<1, "A">>}
    /\ console = NotCaptured
    /\ execRegistry = 1
    /\ \E ok \in BOOLEAN :
        /\ results = [id \in Ids |-> IF ok /\ id = "A" THEN <<"A", 1>> ELSE NoRef]
        /\ errors = [id \in Ids |-> IF ~ok /\ id = "A" THEN <<"A", 1>> ELSE NoRef]
        /\ calls = <<[id |-> "A", reg |-> TRUE, batch |-> 0, state |-> "returned",
                      out |-> GetDataOutcome("A", results, errors)]>>
    /\ requestedLoaders = {"A"}
    /\ batchPromise = 1
    /\ isBatchScheduled = TRUE
    /\ batches = <<[phase |-> "settled", pos |-> "done", lastSize |-> 0,
                    stableCount |-> 0, i |-> 0, started |-> {"A"}]>>
    /\ invoked = [id \in Ids |-> IF id = "A" THEN 1 ELSE 0]
    /\ inflight = {}
    /\ immQ = <<>>
    /\ context = 1
    /\ passed = {[id |-> "A", n |-> 1, loader |-> "p1", context |-> 1]}
    /\ samples = NotSampled
    /\ DefaultContext
    /\ NoEntry

GetDataLate(id) == getData(id, MaxCalls + 1)

LateNext ==
    \/ \E id \in Ids : Register(id)
    \/ \E id \in Ids : GetDataLate(id)
    \/ Tick
    \/ \E l \in inflight, ok \in BOOLEAN : SettleLoader(l, ok)

LateSpec == LateInit /\ [][LateNext]_vars

\* ------------------------------- LazyLoaderExecutor of runtime/orchestrator.ts
\* The executor that batches on a microtask: getData schedules executeBatch with
\* Promise.resolve().then once, and executeBatch runs the requested loaders.

\* getData: batchPromise = Promise.resolve().then(() => this.executeBatch())
NewMicrotaskBatch == [NewBatch(0) EXCEPT !.pos = "microtask"]

\* executeBatch: the requested ids whose loader is called
RequestedToInvoke(req, reg, res, err) ==
    {id \in req : ~Has(res, id) /\ ~Has(err, id) /\ reg[id] # NoLoader}

\* getData(moduleUrl) up to its await (and past it when the promise is settled)
OrchGetData(id) ==
    /\ Len(calls) < MaxCalls
    /\ requestedLoaders' = requestedLoaders \cup {id}
    /\ IF ~isBatchScheduled
       THEN /\ isBatchScheduled' = TRUE
            /\ batchPromise' = Len(batches) + 1
            /\ batches' = Append(batches, NewMicrotaskBatch)
            /\ calls' = Append(calls, [id |-> id, reg |-> id \in Keys(Registry),
                                       batch |-> Len(batches) + 1, state |-> "awaiting",
                                       out |-> Pending])
       ELSE /\ UNCHANGED <<isBatchScheduled, batchPromise, batches>>
            /\ calls' = Append(calls,
                 IF batches[batchPromise].phase = "settled"
                 THEN [id |-> id, reg |-> id \in Keys(Registry), batch |-> 0,
                       state |-> "returned",
                       out |-> GetDataOutcome(id, results, errors)]
                 ELSE [id |-> id, reg |-> id \in Keys(Registry), batch |-> batchPromise,
                       state |-> "awaiting", out |-> Pending])
    /\ UNCHANGED <<execRegistry, results, errors, invoked, inflight, immQ, context,
                   passed, samples>>
    /\ UNCHANGED <<regVars, ctxVars, entryVars, treeVars>>

\* The microtask scheduled by getData runs executeBatch
OrchExecuteBatch ==
    /\ batchPromise # 0
    /\ batches[batchPromise].phase = "collecting"
    /\ batches[batchPromise].pos = "microtask"
    /\ LET k == batchPromise
           inv == RequestedToInvoke(requestedLoaders, Registry, results, errors)
       IN /\ invoked' = [id \in Ids |-> IF id \in inv THEN invoked[id] + 1
                                        ELSE invoked[id]]
          /\ inflight' = inflight \cup {<<id, invoked[id] + 1, k>> : id \in inv}
          /\ passed' = passed \cup
                {[id |-> id, n |-> invoked[id] + 1, loader |-> Registry[id],
                  context |-> loaderContext(k)] : id \in inv}
          /\ batches' = [batches EXCEPT ![k] =
                [@ EXCEPT !.started = inv, !.pos = "done",
                          !.phase = IF inv = {} THEN "settled" ELSE "executing"]]
          /\ calls' = IF inv = {} THEN Resume(calls, k, results, errors) ELSE calls
          /\ eager' = IF inv = {} THEN ResumeAll(eager, k) ELSE eager
    /\ UNCHANGED <<execRegistry, results, errors, requestedLoaders, batchPromise,
                   isBatchScheduled, immQ, context, samples>>
    /\ UNCHANGED <<regVars, ctxVars, run, handled, treeVars>>

OrchNext ==
    \/ \E id \in Ids : Register(id)
    \/ \E id \in Ids : OrchGetData(id)
    \/ OrchExecuteBatch
    \/ \E l \in inflight, ok \in BOOLEAN : SettleLoader(l, ok)

OrchSpec == Init /\ [][OrchNext]_vars

\* executeAll(): every key the registry holds now is requested and executeBatch is
\* scheduled on a microtask, unless a batch was scheduled before
ExecuteAll ==
    /\ Len(eager) < MaxCalls + 1
    /\ IF isBatchScheduled
       THEN UNCHANGED <<requestedLoaders, isBatchScheduled, batchPromise, batches>>
       ELSE /\ requestedLoaders' = requestedLoaders \cup Keys(Registry)
            /\ isBatchScheduled' = TRUE
            /\ batchPromise' = Len(batches) + 1
            /\ batches' = Append(batches, NewMicrotaskBatch)
    /\ eager' = Append(eager, [op |-> "executeAll", batch |-> batchPromise',
                               state |-> "returned"])
    /\ UNCHANGED <<execRegistry, results, errors, calls, invoked, inflight, immQ,
                   context, passed, samples>>
    /\ UNCHANGED <<regVars, ctxVars, run, handled, treeVars>>

\* awaitAll(): if (this.batchPromise) await this.batchPromise
AwaitAll ==
    /\ Len(eager) < MaxCalls + 1
    /\ eager' = Append(eager,
          [op |-> "awaitAll", batch |-> batchPromise,
           state |-> IF batchPromise = 0 \/ batches[batchPromise].phase = "settled"
                     THEN "returned" ELSE "awaiting"])
    /\ UNCHANGED <<execRegistry, results, errors, requestedLoaders, batchPromise,
                   isBatchScheduled, batches, calls, invoked, inflight, immQ,
                   context, passed, samples>>
    /\ UNCHANGED <<regVars, ctxVars, run, handled, treeVars>>

\* getDataSync(moduleUrl): throw errors.get(moduleUrl), else results.get(moduleUrl)
getDataSync(id) == GetDataOutcome(id, results, errors)

\* The executor driven as the eager middleware drives it (executeAll, awaitAll) while
\* component modules register loaders and components call getData
EagerNext ==
    \/ \E id \in Ids : Register(id)
    \/ ExecuteAll
    \/ AwaitAll
    \/ \E id \in Ids : OrchGetData(id)
    \/ OrchExecuteBatch
    \/ \E l \in inflight, ok \in BOOLEAN : SettleLoader(l, ok)

EagerSpec == Init /\ [][EagerNext]_vars

\* Sequential awaits (the page's components registered their loaders before the
\* first getData): the caller issues a getData only after every earlier one returned
SeqRegister(id) ==
    /\ calls = <<>>
    /\ Register(id)

SeqGetData(id) ==
    /\ \A c \in DOMAIN calls : calls[c].state = "returned"
    /\ getData(id, MaxCalls + 1)

SeqNext ==
    \/ \E id \in Ids : SeqRegister(id)
    \/ \E id \in Ids : SeqGetData(id)
    \/ Tick
    \/ \E l \in inflight, ok \in BOOLEAN : SettleLoader(l, ok)

SeqSpec == Init /\ [][SeqNext]_vars

\* createLoaderExecutor(options): one Context from the options, the registry of the
\* caller's scope, and the executor holding both
Options == [params : Params, request : Requests, extend : Extends]

CreateLoaderExecutor(options) ==
    /\ context = 0
    /\ contexts' = Append(contexts, createLoaderContext(options, nDedupe + 1))
    /\ nDedupe' = nDedupe + 1
    /\ cache' = Append(cache, EmptyCache)
    /\ context' = Len(contexts) + 1
    /\ execRegistry' = getStore(ExecTask)
    /\ extendCalls' = extendCalls + extendCallsOf(options)
    /\ UNCHANGED <<promises, dcalls>>
    /\ UNCHANGED <<results, errors, requestedLoaders, batchPromise, isBatchScheduled,
                   batches, calls, invoked, inflight, immQ, passed, samples>>
    /\ UNCHANGED <<regVars, entryVars, treeVars>>

\* The request from the opening of its scope: the executor is created with any
\* options, loaders register at any time, getData calls are awaited one by one
CtxGetData(id) ==
    /\ context # 0
    /\ SeqGetData(id)

CtxInit ==
    /\ registries = [s \in Scopes |-> EmptyMap]
    /\ nScopes = 1
    /\ ctx = [t \in Tasks |-> IF t = ExecTask THEN <<NoStore, 1>> ELSE <<>>]
    /\ regLog = {}
    /\ console = NotCaptured
    /\ execRegistry = 0
    /\ results = [id \in Ids |-> NoRef]
    /\ errors = [id \in Ids |-> NoRef]
    /\ requestedLoaders = {}
    /\ batchPromise = 0
    /\ isBatchScheduled = FALSE
    /\ batches = <<>>
    /\ calls = <<>>
    /\ invoked = [id \in Ids |-> 0]
    /\ inflight = {}
    /\ immQ = <<>>
    /\ context = 0
    /\ passed = {}
    /\ samples = NotSampled
    /\ NoContexts
    /\ NoEntry

CtxNext ==
    \/ \E options \in Options : CreateLoaderExecutor(options)
    \/ \E id \in Ids : Register(id)
    \/ \E id \in Ids : CtxGetData(id)
    \/ Tick
    \/ \E l \in inflight, ok \in BOOLEAN : SettleLoader(l, ok)

CtxSpec == CtxInit /\ [][CtxNext]_vars

\* The render with the console captured: component modules (a component and the
\* parent that extracted its loader) register either producer for an id
RegisterAny(id, p) ==
    /\ RegisterLoader(ExecTask, id, p)

GetDataOnce(id) == getData(id, 1)

DupInit ==
    /\ registries = [s \in Scopes |-> EmptyMap]
    /\ nScopes = 1
    /\ ctx = [t \in Tasks |-> IF t = ExecTask THEN <<NoStore, 1>> ELSE <<>>]
    /\ regLog = {}
    /\ console = {}
    /\ execRegistry = 1
    /\ results = [id \in Ids |-> NoRef]
    /\ errors = [id \in Ids |-> NoRef]
    /\ requestedLoaders = {}
    /\ batchPromise = 0
    /\ isBatchScheduled = FALSE
    /\ batches = <<>>
    /\ calls = <<>>
    /\ invoked = [id \in Ids |-> 0]
    /\ inflight = {}
    /\ immQ = <<>>
    /\ context = 1
    /\ passed = {}
    /\ samples = NotSampled
    /\ DefaultContext
    /\ NoEntry

DupNext ==
    \/ \E id \in Ids, p \in Producers : RegisterAny(id, p)
    \/ \E id \in Ids : GetDataOnce(id)
    \/ Tick
    \/ \E l \in inflight, ok \in BOOLEAN : SettleLoader(l, ok)

DupSpec == DupInit /\ [][DupNext]_vars

\* Late arrivals with re-registration: the request of LateInit goes on, components
\* register ids with either producer (an id that is already mapped included) and
\* ask for data after the first batch has settled
GrowNext ==
    \/ \E id \in Ids, p \in Producers : RegisterAny(id, p)
    \/ \E id \in Ids : GetDataLate(id)
    \/ Tick
    \/ \E l \in inflight, ok \in BOOLEAN : SettleLoader(l, ok)

GrowSpec == LateInit /\ [][GrowNext]_vars

\* The executor and the scopes together: one execution context opens, nests and
\* leaves scopes, registers loaders in whatever scope is active (or in none), creates
\* the executor at any of these moments and then asks it for data
BindGetData(id) ==
    /\ context # 0
    /\ GetDataOnce(id)

BindNext ==
    \/ InitializeRequestRegistry(ExecTask)
    \/ CallbackReturn(ExecTask)
    \/ \E id \in Ids : Register(id)
    \/ CreateLoaderExecutor(DefaultOptions)
    \/ \E id \in Ids : BindGetData(id)
    \/ Tick
    \/ \E l \in inflight, ok \in BOOLEAN : SettleLoader(l, ok)

BindSpec == RegInit /\ [][BindNext]_vars

\* Nesting on one execution context: initializeRequestRegistry is called outside any
\* scope or inside a callback that is still running, callbacks return innermost
\* first, and loaders register in between
NestNext ==
    \/ InitializeRequestRegistry(ExecTask)
    \/ CallbackReturn(ExecTask)
    \/ \E id \in Ids, p \in Producers : RegisterAny(id, p)

NestSpec == RegInit /\ [][NestNext]_vars

\* ---------------------------------------------------------------------------
\* discoverComponentTree (src/vite-plugin.ts)
\* ---------------------------------------------------------------------------

\* What parseComponentDependencies returns: the resolved paths of the components a
\* file imports and uses, in import order
ChildLists ==
    {s \in UNION {[1..n -> Files] : n \in 0..MaxFiles} :
        \A i, j \in DOMAIN s : i # j => s[i] # s[j]}

\* What fs.readFile gives for a file: it throws, or returns code that does or does
\* not export a loader and imports some components
FileContents ==
    {[readable |-> FALSE, hasLoader |-> FALSE, children |-> <<>>]}
    \cup [readable : {TRUE}, hasLoader : BOOLEAN, children : ChildLists]

\* visited.has(filePath) with a new Set for every call
visitedHasFresh(filePath) == FALSE

\* visited.has(filePath)
visitedHas(filePath) == filePath \in visited

\* The call's local state when it reaches its for loop: components holds the file
\* itself if it has a loader; a read error leaves nothing to iterate
NewFrame(filePath, content) ==
    [filePath |-> filePath,
     components |-> IF content.readable /\ content.hasLoader
                    THEN <<filePath>> ELSE <<>>,
     children |-> IF content.readable THEN content.children ELSE <<>>]

OnStack(filePath) == \E i \in DOMAIN stack : stack[i].filePath = filePath

\* discoverComponentTree(filePath): the outermost call, with its own new visited Set
DiscoverComponentTree(filePath, content) ==
    /\ stack = <<>>
    /\ returned = NotReturned
    /\ visited = {}
    /\ ~visitedHas(filePath)
    /\ visited' = visited \cup {filePath}
    /\ reads' = [reads EXCEPT ![filePath] = @ + 1]
    /\ stack' = <<NewFrame(filePath, content)>>
    /\ UNCHANGED <<returned, skipped>>
    /\ UNCHANGED <<regVars, execRegistry, results, errors, requestedLoaders,
                   batchPromise, isBatchScheduled, batches, calls, invoked, inflight,
                   immQ, context, passed, samples, ctxVars, entryVars>>

\* The for loop calls discoverComponentTree(child.filePath, visited) for a file not
\* visited yet: the file is marked, read and parsed
VisitChild(content) ==
    /\ stack # <<>>
    /\ stack[Len(stack)].children # <<>>
    /\ LET n == Len(stack)
           child == Head(stack[n].children)
       IN /\ ~visitedHas(child)
          /\ visited' = visited \cup {child}
          /\ reads' = [reads EXCEPT ![child] = @ + 1]
          /\ stack' = Append([stack EXCEPT ![n].children = Tail(@)],
                             NewFrame(child, content))
    /\ UNCHANGED <<returned, skipped>>
    /\ UNCHANGED <<regVars, execRegistry, results, errors, requestedLoaders,
                   batchPromise, isBatchScheduled, batches, calls, invoked, inflight,
                   immQ, context, passed, samples, ctxVars, entryVars>>

\* The for loop calls discoverComponentTree for a visited file: the call returns []
\* at once and the loop goes on
SkipChild ==
    /\ stack # <<>>
    /\ stack[Len(stack)].children # <<>>
    /\ LET n == Len(stack)
           child == Head(stack[n].children)
       IN /\ visitedHas(child)
          /\ stack' = [stack EXCEPT ![n].children = Tail(@)]
          /\ skipped' = skipped \cup
                {<<child, IF OnStack(child) THEN "active" ELSE "finished">>}
    /\ UNCHANGED <<visited, returned, reads>>
    /\ UNCHANGED <<regVars, execRegistry, results, errors, requestedLoaders,
                   batchPromise, isBatchScheduled, batches, calls, invoked, inflight,
                   immQ, context, passed, samples, ctxVars, entryVars>>

\* The for loop is over: the call returns its components, which the caller pushes
\* onto its own
Return ==
    /\ stack # <<>>
    /\ stack[Len(stack)].children = <<>>
    /\ LET n == Len(stack)
       IN IF n = 1
          THEN /\ returned' = stack[n].components
               /\ stack' = <<>>
          ELSE /\ stack' = [SubSeq(stack, 1, n - 1) EXCEPT
                               ![n - 1].components = @ \o stack[n].components]
               /\ UNCHANGED returned
    /\ UNCHANGED <<visited, reads, skipped>>
    /\ UNCHANGED <<regVars, execRegistry, results, errors, requestedLoaders,
                   batchPromise, isBatchScheduled, batches, calls, invoked, inflight,
                   immQ, context, passed, samples, ctxVars, entryVars>>

TreeNext ==
    \/ \E filePath \in Files, content \in FileContents :
          DiscoverComponentTree(filePath, content)
    \/ \E content \in FileContents : VisitChild(content)
    \/ SkipChild
    \/ Return

\* Every await of a call in progress settles: file reads finish or fail
TreeFairness ==
    /\ WF_vars(\E content \in FileContents : VisitChild(content))
    /\ WF_vars(SkipChild)
    /\ WF_vars(Return)

TreeSpec == RegInit /\ [][TreeNext]_vars /\ TreeFairness





\* The request with the stability loop traced: every size the loop of the request's
\* collection cycle reads is recorded
StabInit ==
    /\ registries = [s \in Scopes |-> EmptyMap]
    /\ nScopes = 1
    /\ ctx = [t \in Tasks |-> IF t = ExecTask THEN <<NoStore, 1>> ELSE <<>>]
    /\ regLog = {}
    /\ console = NotCaptured
    /\ execRegistry = 1
    /\ results = [id \in Ids |-> NoRef]
    /\ errors = [id \in Ids |-> NoRef]
    /\ requestedLoaders = {}
    /\ batchPromise = 0
    /\ isBatchScheduled = FALSE
    /\ batches = <<>>
    /\ calls = <<>>
    /\ invoked = [id \in Ids |-> 0]
    /\ inflight = {}
    /\ immQ = <<>>
    /\ context = 1
    /\ passed = {}
    /\ samples = <<>>
    /\ DefaultContext
    /\ NoEntry

StabNext ==
    \/ \E id \in Ids : Register(id)
    \/ \E id \in Ids : GetDataOnce(id)
    \/ Tick
    \/ \E l \in inflight, ok \in BOOLEAN : SettleLoader(l, ok)

StabSpec == StabInit /\ [][StabNext]_vars

\* The request under the event loop's scheduling: a pending setImmediate callback is
\* eventually run, and the promise of a called loader eventually settles
Fairness ==
    /\ WF_vars(Tick)
    /\ WF_vars(\E l \in inflight, ok \in BOOLEAN : SettleLoader(l, ok))

FairSpec == StabInit /\ [][Next]_vars /\ Fairness

\* ------------------------------------------------- runAllLoadersForRequest
\* Promise.allSettled in place of Promise.all: the call waits for every loader and
\* does not reject
PromiseAllSettled(pending, failed) ==
    IF pending = {} THEN "resolved" ELSE "awaiting"

\* await Promise.all(promises): rejects with the first rejection, resolves when every
\* promise has fulfilled
PromiseAll(pending, failed) ==
    IF failed # {} THEN "rejected"
    ELSE IF pending = {} THEN "resolved"
    ELSE "awaiting"

\* new Map(results): the [moduleUrl, value] pairs of the fulfilled loaders
NewMap(state, values) ==
    IF state = "resolved" THEN values ELSE [id \in Ids |-> NoRef]

\* runAllLoadersForRequest(options) up to its await: the Context is created, the
\* registry entries are copied and entries.map calls every loader
RunAllLoadersForRequest(options) ==
    /\ run.state = "idle"
    /\ nDedupe < MaxInstances
    /\ LET registry == getRegistry(ExecTask)
           entries == Keys(registry)
           st == PromiseAll(entries, {})
           none == [id \in Ids |-> NoRef]
       IN /\ contexts' = Append(contexts, createLoaderContext(options, nDedupe + 1))
          /\ nDedupe' = nDedupe + 1
          /\ cache' = Append(cache, EmptyCache)
          /\ extendCalls' = extendCalls + extendCallsOf(options)
          /\ invoked' = [id \in Ids |-> IF id \in entries THEN invoked[id] + 1
                                        ELSE invoked[id]]
          /\ passed' = passed \cup
                {[id |-> id, n |-> invoked[id] + 1, loader |-> registry[id],
                  context |-> Len(contexts) + 1] : id \in entries}
          /\ run' = [state |-> st, entries |-> registry,
                     context |-> Len(contexts) + 1, pending |-> entries,
                     values |-> none, failed |-> {}, error |-> NoRef,
                     dataByModule |-> NewMap(st, none)]
    /\ UNCHANGED <<promises, dcalls>>
    /\ UNCHANGED <<execRegistry, results, errors, requestedLoaders, batchPromise,
                   isBatchScheduled, batches, calls, inflight, immQ, context, samples,
                   eager, handled, treeVars>>
    /\ UNCHANGED regVars

\* The promise of one loader settles: its async arrow returns [moduleUrl, value] or
\* rejects, and Promise.all settles accordingly
RunSettle(id, ok) ==
    /\ id \in run.pending
    /\ LET pending == run.pending \ {id}
           failed == IF ok THEN run.failed ELSE run.failed \cup {id}
           values == IF ok THEN [run.values EXCEPT ![id] = <<id, invoked[id]>>]
                     ELSE run.values
           st == PromiseAll(pending, failed)
       IN run' = [run EXCEPT !.pending = pending, !.failed = failed,
                             !.values = values, !.state = st,
                             !.error = IF run.state = "awaiting" /\ ~ok
                                       THEN <<id, invoked[id]>> ELSE @,
                             !.dataByModule = NewMap(st, values)]
    /\ UNCHANGED <<regVars, ctxVars>>
    /\ UNCHANGED <<execRegistry, results, errors, requestedLoaders, batchPromise,
                   isBatchScheduled, batches, calls, invoked, inflight, immQ,
                   context, passed, samples, eager, handled, treeVars>>

\* A request handled with runAllLoadersForRequest: the scope is opened, component
\* modules register loaders, the function is called once and its loaders settle
RunNext ==
    \/ InitializeRequestRegistry(ExecTask)
    \/ \E id \in Ids, p \in Producers : RegisterAny(id, p)
    \/ \E options \in Options : RunAllLoadersForRequest(options)
    \/ \E id \in Ids, ok \in BOOLEAN : RunSettle(id, ok)

RunSpec == RegInit /\ [][RunNext]_vars

\* ------------------------------------------------------ autoLoadMiddleware
\* context.url.pathname, as a sequence of pieces of the string
Paths == {<<"/", "_astro", "/", "x">>, <<"/", "assets">>, <<"/", "api", "x">>,
          <<"/", "posts">>}

\* the value of an optional route parameter that did not match
UndefinedValue == "undefined value"

\* context.params
RouteParams == [{"id", "slug"} -> {"1", UndefinedValue}]

APIContexts == [url : Paths, params : RouteParams]

\* path.startsWith(prefix)
StartsWith(path, prefix) ==
    /\ Len(path) >= Len(prefix)
    /\ SubSeq(path, 1, Len(prefix)) = prefix

\* the path test comparing whole paths
SkipPathExact(path) ==
    path \in {<<"/", "_astro">>, <<"/", "assets">>, <<"/", "api">>}

\* the paths the middleware passes through
SkipPath(path) ==
    \/ StartsWith(path, <<"/", "_astro">>)
    \/ StartsWith(path, <<"/", "assets">>)
    \/ StartsWith(path, <<"/", "api">>)

\* the params object built from Object.entries(context.params)
definedParams(params) ==
    [k \in {j \in DOMAIN params : params[j] # UndefinedValue} |-> params[k]]

\* autoLoadMiddleware(context, next) on task t, up to its call of next()
AutoLoadMiddleware(t, c) ==
    /\ Started(t)
    /\ Len(handled) < MaxScopes
    /\ IF SkipPath(c.url)
       THEN /\ handled' = Append(handled, [url |-> c.url, autoLoad |-> 0,
                                           registry |-> NoStore, next |-> getStore(t)])
            /\ UNCHANGED <<registries, nScopes, ctx, contexts, nDedupe, cache>>
       ELSE /\ nScopes < MaxScopes
            /\ nDedupe < MaxInstances
            /\ nScopes' = nScopes + 1
            /\ registries' = [registries EXCEPT ![nScopes + 1] = EmptyMap]
            /\ ctx' = [ctx EXCEPT ![t] = Append(@, nScopes + 1)]
            /\ contexts' = Append(contexts,
                  createLoaderContext([params |-> definedParams(c.params),
                                       request |-> DefaultOptions.request,
                                       extend |-> NoExtend], nDedupe + 1))
            /\ nDedupe' = nDedupe + 1
            /\ cache' = Append(cache, EmptyCache)
            /\ handled' = Append(handled,
                  [url |-> c.url, autoLoad |-> Len(contexts) + 1,
                   registry |-> ctx'[t][Len(ctx'[t])], next |-> ctx'[t][Len(ctx'[t])]])
    /\ UNCHANGED <<regLog, console, promises, dcalls, extendCalls, run, eager,
                   treeVars>>
    /\ UNCHANGED <<execRegistry, results, errors, requestedLoaders, batchPromise,
                   isBatchScheduled, batches, calls, invoked, inflight, immQ,
                   context, passed, samples>>

\* Requests arrive on the server's execution contexts; the callback handed to
\* initializeRequestRegistry returns and asynchronous continuations run
MwNext ==
    \/ \E t \in Tasks, c \in APIContexts : AutoLoadMiddleware(t, c)
    \/ \E t \in Tasks : CallbackReturn(t)
    \/ \E t \in Tasks, u \in Tasks : Continuation(t, u)

MwSpec == RegInit /\ [][MwNext]_vars

\* Refuted under Spec: LateInit is a state of Spec (register A, getData A, four
\* ticks, the producer settles)
LateInitNotReached == ~LateInit

\* ------------------------------------------------------------------ claims
Returned(c) == calls[c].state = "returned"

Stored(id) == Has(results, id) \/ Has(errors, id)

Active(k) == batches[k].phase # "settled"

\* C1: within one executor each registered producer is invoked at most once,
\* whatever the number and interleaving of getData calls.
C1_InvokedAtMostOnce == \A id \in Ids : invoked[id] <= 1

\* C2: the Result Store and the Error Store are write-once: an entry, once present,
\* is never overwritten with a different value and never removed.
C2_StoresWriteOnce ==
    [][\A id \in Ids :
          /\ Has(results, id) => results'[id] = results[id]
          /\ Has(errors, id) => errors'[id] = errors[id]]_vars

\* C3: at most one batch cycle is active at any time: a getData call starts a new
\* collection cycle only when none was started yet or when every earlier batch has
\* settled and the requested id has no stored outcome; otherwise it joins the batch.
C3_OneActiveBatch ==
    [][Len(batches') > Len(batches) =>
          /\ \A k \in DOMAIN batches : ~Active(k)
          /\ ~Stored(calls'[Len(calls')].id)]_vars

\* C4: all getData(id) calls of one request that resolve with a value return the
\* identical value reference.
C4_SameReference ==
    \A c, d \in DOMAIN calls :
        (/\ calls[c].id = calls[d].id
         /\ calls[c].out.kind = "resolved"
         /\ calls[d].out.kind = "resolved")
        => calls[c].out.ref = calls[d].out.ref

\* C5: failure isolation: a batch settles only with the outcome of every producer it
\* started stored, a getData call is rejected only with an error of its own id's
\* producer and resolves only with a value of its own id's producer, and a call for
\* a registered id none of whose producer runs failed resolves with a value.
C5_FailureIsolation ==
    /\ \A k \in DOMAIN batches :
          /\ ~Active(k) => \A id \in batches[k].started : Stored(id)
          /\ batches[k].phase = "executing" => \E l \in inflight : l[3] = k
    /\ \A c \in DOMAIN calls : Returned(c) =>
          /\ calls[c].out.kind = "rejected" =>
                calls[c].out.ref[1] = calls[c].id /\ Has(errors, calls[c].id)
          /\ calls[c].out.kind = "resolved" => calls[c].out.ref[1] = calls[c].id
          /\ (calls[c].reg /\ ~Has(errors, calls[c].id)) =>
                calls[c].out.kind = "resolved"

\* C5 witness: X failed and Y succeeded in one request, the caller of Y has its value
\* and the caller of X is rejected.
C5_Witness ==
    \E c, d \in DOMAIN calls :
        /\ Returned(c) /\ Returned(d)
        /\ calls[c].id # calls[d].id
        /\ calls[c].out.kind = "rejected"
        /\ calls[d].out.kind = "resolved"
        /\ \E k \in DOMAIN batches : batches[k].started = Ids /\ ~Active(k)

\* C6: a producer failure is cached: once an id has an Error entry the entry stays
\* the same, the producer is not invoked again, and every getData(id) call that
\* returns rejects with that captured error.
C6_FailureCached ==
    [][\A id \in Ids : Has(errors, id) =>
          /\ errors'[id] = errors[id]
          /\ invoked'[id] = invoked[id]
          /\ \A c \in DOMAIN calls' :
                (calls'[c].id = id /\ calls'[c].state = "returned"
                 /\ (c \notin DOMAIN calls \/ calls[c].state # "returned"))
                => calls'[c].out = [kind |-> "rejected", ref |-> errors[id]]]_vars

\* C7: getData(id) for an id that is not registered resolves to undefined and does
\* not reject, in every executor state.
C7_UnregisteredUndefined ==
    \A c \in DOMAIN calls :
        (Returned(c) /\ calls[c].id \notin Keys(Registry)) => calls[c].out = Undefined

\* C7 witness: a call for an unregistered id has returned undefined after another
\* id was batched and stored.
C7_Witness ==
    \E c \in DOMAIN calls :
        /\ Returned(c)
        /\ calls[c].id \notin Keys(Registry)
        /\ calls[c].out = Undefined
        /\ \E id \in Ids : id # calls[c].id /\ Stored(id)

\* C8: late arrival: once an earlier batch has settled, a later batch invokes only
\* producers that have no stored outcome and were not started by an earlier batch,
\* and getData for an id registered before the call does not come back empty.
C8_LateArrival ==
    [][(\E k \in DOMAIN batches : ~Active(k)) =>
          /\ \A id \in Ids : invoked'[id] > invoked[id] =>
                (invoked[id] = 0 /\ ~Stored(id))
          /\ \A c \in DOMAIN calls' :
                (calls'[c].state = "returned" /\ calls'[c].reg)
                => calls'[c].out.kind # "undefined"]_vars

\* C9: cross-request isolation: the registry a task observes holds only ids that were
\* registered by code running in that task's own scope (so a scope starts empty and
\* never shows another scope's ids); outside any scope it is empty.
C9_Isolation ==
    \A t \in Tasks : Started(t) =>
        Keys(getRegistry(t)) \subseteq {id \in Ids : <<ScopeOf(t), id>> \in regLog}

\* C9 witness: two tasks run in two different scopes, each scope holding an id the
\* other does not.
C9_Witness ==
    \E t, u \in Tasks :
        /\ ScopeOf(t) = 1 /\ ScopeOf(u) = 2
        /\ Keys(getRegistry(t)) = {"A"}
        /\ Keys(getRegistry(u)) = {"B"}

FirstCall(c) ==
    CHOOSE d \in DOMAIN dcalls :
        /\ dcalls[d].inst = dcalls[c].inst /\ dcalls[d].key = dcalls[c].key
        /\ \A e \in DOMAIN dcalls :
              (dcalls[e].inst = dcalls[c].inst /\ dcalls[e].key = dcalls[c].key)
              => d <= e

\* C12: dedupe exactness: among the dedupe calls with one key on one instance only
\* the first call's fn is invoked, exactly once; its promise is in the cache from
\* that call on (also while pending), and every caller holds that same promise.
C12_DedupeExactness ==
    /\ \A c \in DOMAIN dcalls :
          /\ dcalls[c].promise = dcalls[FirstCall(c)].promise
          /\ promises[dcalls[c].promise].fn = dcalls[FirstCall(c)].fn
          /\ cache[dcalls[c].inst][dcalls[c].key] = dcalls[c].promise
    /\ Len(promises) = Cardinality({<<dcalls[c].inst, dcalls[c].key>> : c \in DOMAIN dcalls})

\* C12 witness: three calls with one key on one instance, the second made while the
\* promise was pending and with another fn, the third after it settled.
C12_Witness ==
    /\ Len(dcalls) = 3
    /\ \A c \in DOMAIN dcalls : dcalls[c].inst = 1 /\ dcalls[c].key = "k1"
    /\ dcalls[1].saw = "miss" /\ dcalls[1].fn = "f"
    /\ dcalls[2].saw = "pending" /\ dcalls[2].fn = "g"
    /\ dcalls[3].saw = "fulfilled"
    /\ Len(promises) = 1

\* C13: a rejected outcome is cached: while the promise stored under a key is
\* rejected, the entry and the promise stay as they are, and a dedupe call with that
\* key returns that promise without invoking any fn.
C13_RejectionCached ==
    [][\A inst \in 1..nDedupe, key \in DKeys :
          (/\ cache[inst][key] # NoPromise
           /\ promises[cache[inst][key]].state = "rejected") =>
             /\ cache'[inst][key] = cache[inst][key]
             /\ promises'[cache[inst][key]] = promises[cache[inst][key]]
             /\ \A fn \in Fns : Dedupe(inst, key, fn) =>
                   /\ promises' = promises
                   /\ dcalls'[Len(dcalls')].promise = cache[inst][key]]_vars

\* C13 witness: two calls were made after the key's fn had rejected; fn ran once.
C13_Witness ==
    /\ Len(dcalls) = 3
    /\ \A c \in DOMAIN dcalls : dcalls[c].inst = 1 /\ dcalls[c].key = "k1"
    /\ dcalls[2].saw = "rejected" /\ dcalls[3].saw = "rejected"
    /\ dcalls[3].promise = dcalls[1].promise
    /\ Len(promises) = 1

\* C14: two dedupe calls hold the same promise if and only if they were made with
\* the same key on the same instance, and a cache entry, once set, is never removed
\* or replaced.
C14_ShareIffSameKeyAndInstance ==
    [][/\ \A c, d \in DOMAIN dcalls' :
              (dcalls'[c].promise = dcalls'[d].promise)
              <=> (dcalls'[c].inst = dcalls'[d].inst /\ dcalls'[c].key = dcalls'[d].key)
       /\ \A inst \in 1..nDedupe, key \in DKeys :
              cache[inst][key] # NoPromise => cache'[inst][key] = cache[inst][key]]_vars

\* C14 witness: the same fn was deduped under two keys on one instance and under
\* one key on two instances, and ran three times.
C14_Witness ==
    /\ Len(dcalls) = 3
    /\ \A c \in DOMAIN dcalls : dcalls[c].fn = "f"
    /\ dcalls[1].inst = 1 /\ dcalls[1].key = "k1"
    /\ dcalls[2].inst = 1 /\ dcalls[2].key = "k2"
    /\ dcalls[3].inst = 2 /\ dcalls[3].key = "k1"
    /\ Cardinality({dcalls[c].promise : c \in DOMAIN dcalls}) = 3

\* C15: when a batch executes (its collection ends), the producer of every id in the
\* registry that has no stored outcome is invoked, once, whether or not a getData
\* call requested the id.
C15_BatchInvokesAllRegistered ==
    [][\A k \in DOMAIN batches :
          (batches[k].phase = "collecting" /\ batches'[k].phase # "collecting") =>
             \A id \in Keys(Registry) : Stored(id) \/ invoked'[id] = invoked[id] + 1]_vars

\* C16: sequential awaits do not serialise producers: with the ids registered before
\* the first getData and each getData awaited before the next is issued, every
\* registered producer is started by the batch of the first call and by no other,
\* once; when the first call has returned every registered id is settled; and a
\* later call for a registered id starts no batch and returns at once.
C16_SequentialAwaits ==
    [][/\ \A id \in Ids : invoked'[id] <= 1
       /\ \A k \in DOMAIN batches' :
             /\ k > 1 => batches'[k].started = {}
             /\ (k = 1 /\ batches'[k].phase # "collecting") =>
                   batches'[k].started = Keys(Registry)
       /\ (calls' # <<>> /\ calls'[1].state = "returned") =>
             \A id \in Keys(Registry) : Has(results', id) \/ Has(errors', id)
       /\ (calls # <<>> /\ Len(calls') > Len(calls)
           /\ calls'[Len(calls')].id \in Keys(Registry)) =>
             /\ batches' = batches
             /\ invoked' = invoked
             /\ calls'[Len(calls')].state = "returned"
             /\ calls'[Len(calls')].out.kind \in {"resolved", "rejected"}]_vars

\* C16 witness: A and B were registered, getData(A) was awaited, then getData(B),
\* then getData(A) again: one batch, each producer called once, all calls served.
C16_Witness ==
    /\ Len(calls) = 3
    /\ calls[1].id = "A" /\ calls[2].id = "B" /\ calls[3].id = "A"
    /\ \A c \in DOMAIN calls : calls[c].state = "returned" /\ calls[c].reg
    /\ Len(batches) = 1 /\ batches[1].started = {"A", "B"}
    /\ invoked = [id \in Ids |-> 1]

\* C17: whenever a producer is started, every id that is registered, was requested
\* by a getData call and has no stored outcome is started in that same step by that
\* same batch: requested producers start together, not batch after batch.
C17_StartedTogether ==
    [][\A x \in Ids : invoked'[x] > invoked[x] =>
          \E k \in DOMAIN batches :
              /\ batches[k].phase = "collecting" /\ batches'[k].phase = "executing"
              /\ \A id \in requestedLoaders \cap Keys(Registry) :
                    Stored(id) \/ (/\ id \in batches'[k].started
                                   /\ <<id, invoked[id] + 1, k>> \in inflight')]_vars

\* C17 witness: A and B were requested by two calls and their producers run at the
\* same time, both started by one batch.
C17_Witness ==
    /\ Len(calls) = 2 /\ calls[1].id = "A" /\ calls[2].id = "B"
    /\ \E k \in DOMAIN batches :
          /\ batches[k].started = {"A", "B"}
          /\ {<<"A", 1, k>>, <<"B", 1, k>>} \subseteq inflight

\* C18: a getData call for an id that already has a Result or Error entry returns
\* in the step it is issued, with the stored outcome, whatever batch is collecting
\* or executing at that moment, and neither starts a batch nor invokes a producer.
C18_SettledResolvesFromStore ==
    [][(/\ Len(calls') > Len(calls)
        /\ Stored(calls'[Len(calls')].id)) =>
          /\ calls'[Len(calls')].state = "returned"
          /\ calls'[Len(calls')].out =
                GetDataOutcome(calls'[Len(calls')].id, results, errors)
          /\ batches' = batches
          /\ invoked' = invoked]_vars

Shadowed(options) ==
    IF options.extend = NoExtend THEN {}
    ELSE DOMAIN options.extend \cap {"params", "url", "request", "dedupe"}

\* The Context built for the executor carries the base field f of the options
Carries(c, options, inst, f) ==
    c[f] = [params |-> options.params, url |-> URL(options.request.url),
            request |-> options.request, dedupe |-> inst][f]

\* C20 as stated: creating the executor constructs one Context, carrying the given
\* params, the URL of the request, the request and one new dedupe function; no
\* other Context is constructed afterwards, and every producer invocation, in
\* every batch, is handed that Context.
C20_OneContext ==
    [][/\ \A options \in Options : CreateLoaderExecutor(options) =>
             /\ Len(contexts') = Len(contexts) + 1
             /\ nDedupe' = nDedupe + 1
             /\ Carries(contexts'[context'], options, nDedupe', "params")
             /\ Carries(contexts'[context'], options, nDedupe', "url")
             /\ Carries(contexts'[context'], options, nDedupe', "request")
             /\ contexts'[context'].dedupe = nDedupe'
       /\ context # 0 =>
             /\ context' = context /\ contexts' = contexts /\ nDedupe' = nDedupe
             /\ \A x \in passed' : x.context = context]_vars

\* C20 amended: as C20, where the Context carries each of params, url, request and
\* dedupe of the options unless the extend function returns a field of that name.
C20_OneContextUnlessShadowed ==
    [][/\ \A options \in Options : CreateLoaderExecutor(options) =>
             /\ Len(contexts') = Len(contexts) + 1
             /\ nDedupe' = nDedupe + 1
             /\ \A f \in {"params", "url", "request", "dedupe"} \ Shadowed(options) :
                   Carries(contexts'[context'], options, nDedupe', f)
       /\ context # 0 =>
             /\ context' = context /\ contexts' = contexts /\ nDedupe' = nDedupe
             /\ \A x \in passed' : x.context = context]_vars

\* C20 witness: an executor created with an extend function ran two batches (A, then
\* the late arrival B); both producers were handed the one Context that exists.
C20_Witness ==
    /\ Len(contexts) = 1 /\ context = 1
    /\ "db" \in DOMAIN contexts[1]
    /\ Len(batches) = 2
    /\ batches[1].started = {"A"} /\ batches[2].started = {"B"}
    /\ {x.id : x \in passed} = {"A", "B"}
    /\ \A x \in passed : x.context = 1

\* C21: createLoaderContext with an extend function returns the base fields merged
\* with the fields extend returns: a field extend returns holds extend's value (also
\* under a base name), a base field extend does not return holds its base value, no
\* other field exists, and extend is called exactly once.
C21_ExtendMerge ==
    [][\A options \in Options :
          (options.extend # NoExtend /\ CreateLoaderExecutor(options)) =>
             LET c == contexts'[context']
                 base == {"params", "url", "request", "dedupe"}
             IN /\ DOMAIN c = base \cup DOMAIN options.extend
                /\ \A f \in DOMAIN options.extend : c[f] = options.extend[f]
                /\ \A f \in base \ DOMAIN options.extend :
                      Carries(c, options, nDedupe', f)
                /\ extendCalls' = extendCalls + 1]_vars

\* C21 witness: a Context built with an extend that returns params: it holds
\* extend's params, the url, request and dedupe of the options; extend ran once.
C21_Witness ==
    /\ Len(contexts) = 1
    /\ contexts[1].params = [id |-> "9"]
    /\ contexts[1].url = URL(contexts[1].request.url)
    /\ contexts[1].dedupe = 1
    /\ extendCalls = 1

\* C22: runAllLoadersForRequest calls the loader of every entry the registry holds
\* exactly once, all of them in the call itself, before any has settled; when all
\* fulfil it resolves with dataByModule holding one entry per entry of that registry
\* (none for an empty registry); when any loader rejects the call rejects, every
\* loader having been called.
C22_RunAll ==
    /\ [][\A options \in Options :
            RunAllLoadersForRequest(options) =>
               /\ \A id \in Ids :
                     invoked'[id] = IF id \in Keys(getRegistry(ExecTask))
                                    THEN invoked[id] + 1 ELSE invoked[id]
               /\ run'.pending = Keys(getRegistry(ExecTask))
               /\ run'.failed = {}
               /\ Keys(getRegistry(ExecTask)) = {} =>
                     /\ run'.state = "resolved"
                     /\ run'.dataByModule = [id \in Ids |-> NoRef]]_vars
    /\ [][run.state # "idle" => invoked' = invoked]_vars
    /\ [](run.state = "resolved" =>
            /\ run.failed = {}
            /\ \A id \in Ids :
                  run.dataByModule[id] = IF id \in Keys(run.entries)
                                         THEN <<id, 1>> ELSE NoRef)
    /\ [](run.failed # {} =>
            /\ run.state = "rejected"
            /\ run.error[1] \in run.failed
            /\ \A id \in Keys(run.entries) : invoked[id] = 1)

C22_Witness ==
    /\ Keys(run.entries) = Ids
    /\ run.state = "rejected"
    /\ run.failed = {"A"}
    /\ run.values["B"] = <<"B", 1>>

\* The last n sizes the stability loop of batch k read are equal
LastEqual(k, n) ==
    /\ Len(samples[k]) >= n
    /\ \A j \in 1..(n - 1) :
          samples[k][Len(samples[k]) - j] = samples[k][Len(samples[k])]

\* C23: a batch starts executing only when the last three samples of its stability
\* loop each found the size of the sample before unchanged (four equal readings, the
\* first being the read before the first tick, so also for an empty registry and for
\* growth during the first tick), and a sample that differs from the previous one
\* leaves the consecutive-stable counter at zero.
C23_StabilityDetection ==
    /\ [](\A k \in DOMAIN batches :
            batches[k].phase # "collecting" => LastEqual(k, requiredStableChecks + 1))
    /\ [][\A k \in DOMAIN batches :
            (/\ Len(samples'[k]) = Len(samples[k]) + 1
             /\ samples'[k][Len(samples'[k])] # samples[k][Len(samples[k])])
            => /\ batches'[k].phase = "collecting"
               /\ batches'[k].stableCount = 0]_vars

C23_Witness ==
    /\ batches # <<>>
    /\ batches[1].phase # "collecting"
    /\ samples[1] = <<0, 1, 1, 1, 1, 1>>

\* C24: when a producer's outcome is written to a store, every producer of its batch
\* has been started (it is outstanding or has an outcome), and a getData caller
\* awaiting a batch resumes only when no producer of that batch is outstanding.
C24_FanOutFanIn ==
    [][/\ \A l \in inflight \ inflight' :
             \A id \in batches[l[3]].started :
                 \/ Stored(id)
                 \/ \E m \in inflight : m[1] = id /\ m[3] = l[3]
       /\ \A c \in DOMAIN calls :
             (calls[c].state = "awaiting" /\ calls'[c].state = "returned") =>
                 /\ batches'[calls[c].batch].phase = "settled"
                 /\ \A m \in inflight' : m[3] # calls[c].batch]_vars

C24_Witness ==
    \E k \in DOMAIN batches :
        /\ batches[k].started = Ids
        /\ Has(results, "A")
        /\ \E m \in inflight : m[1] = "B" /\ m[3] = k
        /\ \E c \in DOMAIN calls : calls[c].state = "awaiting" /\ calls[c].batch = k

\* C25: with finitely many registrations, every called producer settling and every
\* pending tick run, each stability loop returns and each getData call resolves or
\* rejects; a loop polls again only while fewer than three samples in a row found the
\* size unchanged.
C25_Termination ==
    /\ \A k \in 1..MaxCalls :
          (k \in DOMAIN batches) ~>
             (k \in DOMAIN batches /\ batches[k].phase # "collecting")
    /\ \A c \in 1..MaxCalls :
          (c \in DOMAIN calls) ~>
             (c \in DOMAIN calls /\ calls[c].state = "returned")
    /\ [](\A k \in DOMAIN batches :
            batches[k].phase = "collecting" => ~LastEqual(k, requiredStableChecks + 2))

C25_Witness ==
    /\ Len(calls) = MaxCalls
    /\ \A c \in DOMAIN calls : calls[c].state = "returned"
    /\ \E c \in DOMAIN calls : calls[c].out.kind = "rejected"
    /\ \E k \in DOMAIN batches : Len(samples[k]) > requiredStableChecks + 2

\* Run n of the producer of id was started and has settled
Settled(id, n) ==
    /\ n \in 1..invoked[id]
    /\ \A m \in inflight : ~(m[1] = id /\ m[2] = n)

\* C26: a producer run that settles has its outcome written to the Result or Error
\* Store, whether or not a getData caller awaits its batch and whether or not
\* batchPromise still refers to it, and from then on a getData for that id yields
\* that outcome.
C26_NoCancellation ==
    /\ [][\A l \in inflight \ inflight' :
             \/ results'[l[1]] = <<l[1], l[2]>>
             \/ errors'[l[1]] = <<l[1], l[2]>>]_vars
    /\ [](\A id \in Ids : \A n \in 1..MaxCalls :
            Settled(id, n) => GetDataOutcome(id, results, errors).ref = <<id, n>>)

\* awaitAll call a was made after an executeAll call and has resolved
EagerDone(a) ==
    /\ eager[a].op = "awaitAll"
    /\ eager[a].state = "returned"
    /\ \E e \in 1..(a - 1) : eager[e].op = "executeAll"

\* C27: once an awaitAll() that followed executeAll() has resolved, getDataSync(id)
\* yields the loader's data or its error for every id of the registry, and once a
\* batch is scheduled no executeAll() or getData() creates another batch.
C27_EagerMode ==
    /\ [](\A a \in DOMAIN eager :
            EagerDone(a) =>
               \A id \in Keys(Registry) : getDataSync(id).kind \in {"resolved", "rejected"})
    /\ [][isBatchScheduled => Len(batches') = Len(batches)]_vars

C29_RegisteredNeverSkipped ==
    \A c \in DOMAIN calls :
        (Returned(c) /\ calls[c].reg) =>
            /\ calls[c].out.kind \in {"resolved", "rejected"}
            /\ calls[c].out.ref[1] = calls[c].id

\* C30: no id has an entry in both the Result Store and the Error Store, and every id
\* with an entry in either store is a key of the registry.
C30_StoresDisjoint ==
    \A id \in Ids :
        /\ ~(Has(results, id) /\ Has(errors, id))
        /\ Stored(id) => id \in Keys(Registry)

C32_BoundToCreationScope ==
    /\ [][/\ (context = 0 /\ context' # 0) => execRegistry' = ScopeOf(ExecTask)
          /\ context # 0 => execRegistry' = execRegistry
          /\ \A k \in DOMAIN batches :
                (batches[k].phase = "collecting" /\ batches'[k].phase # "collecting")
                => /\ batches'[k].started \subseteq Keys(Registry)
                   /\ requestedLoaders \cap Keys(Registry) \subseteq batches'[k].started
                   /\ execRegistry # NoStore =>
                         Keys(Registry) = Keys(registries[execRegistry])]_vars
    /\ [](\A id \in Ids :
             invoked[id] > 0 =>
                /\ execRegistry # NoStore
                /\ registries[execRegistry][id] # NoLoader)
    /\ []((context # 0 /\ execRegistry = NoStore) =>
             /\ \A id \in Ids : invoked[id] = 0
             /\ \A c \in DOMAIN calls : Returned(c) => calls[c].out = Undefined)

\* C32 witness: the executor was created in scope 1; A was registered there after the
\* executor existed (the getData call for A found it unregistered) and the batch ran
\* it; B was registered in scope 2 only and was not run.
C32_Witness ==
    /\ execRegistry = 1
    /\ Len(calls) = 1
    /\ calls[1].id = "A"
    /\ ~calls[1].reg
    /\ Returned(1)
    /\ calls[1].out.kind = "resolved"
    /\ registries[1]["B"] = NoLoader
    /\ registries[2]["B"] # NoLoader
    /\ invoked = [id \in Ids |-> IF id = "A" THEN 1 ELSE 0]

\* C33: an initializeRequestRegistry call made inside a scope gives its callback a
\* new empty registry and leaves the outer one as it is; a registration made in the
\* inner scope changes the inner registry only; and when the inner callback returns,
\* the registry of the enclosing scope is the active one again, with the content it
\* had when the inner scope was opened plus nothing.
C33_NestedScopes ==
    [][\A t \in Tasks :
          /\ (ScopeOf(t) # NoStore /\ InitializeRequestRegistry(t)) =>
                /\ ScopeOf(t)' # ScopeOf(t)
                /\ getRegistry(t)' = EmptyMap
                /\ registries'[ScopeOf(t)] = registries[ScopeOf(t)]
          /\ \A id \in Ids, p \in Producers :
                RegisterLoader(t, id, p) =>
                   \A s \in Scopes : s # ScopeOf(t) => registries'[s] = registries[s]
          /\ (Len(ctx[t]) > 2 /\ CallbackReturn(t)) =>
                /\ ScopeOf(t)' = ctx[t][Len(ctx[t]) - 1]
                /\ getRegistry(t)' = registries[ctx[t][Len(ctx[t]) - 1]]]_vars

\* C33 witness: scope 2 was opened inside scope 1 and has returned; B was registered
\* in scope 2 and is not in scope 1's registry, which is active again and still holds
\* the A registered before the inner scope was opened.
C33_Witness ==
    /\ ctx[ExecTask] = <<NoStore, 1>>
    /\ nScopes = 2
    /\ registries[2]["B"] # NoLoader
    /\ getRegistry(ExecTask) = [EmptyMap EXCEPT !["A"] = "p1"]

\* C34: in the function-keyed dedupe, the promise a call returns was produced by the
\* function the call passed, and two calls hold the same promise only if they passed
\* the same function and equal arguments.
C34_NeverOtherFunction ==
    /\ \A c \in DOMAIN dcalls : promises[dcalls[c].promise].fn = dcalls[c].fn
    /\ \A c, d \in DOMAIN dcalls :
          dcalls[c].promise = dcalls[d].promise =>
             dcalls[c].fn = dcalls[d].fn /\ dcalls[c].args = dcalls[d].args

\* C35: discoverComponentTree terminates on every import graph: each step either
\* marks a new file as visited or, with the visited set unchanged, shortens the work
\* left on the call stack, and a call in progress leads to the outermost call
\* returning; no file is read more than once; and no component appears twice in a
\* call's components or in the returned array.
Unvisited == Cardinality(Files \ visited)

RECURSIVE WorkLeft(_)
WorkLeft(s) ==
    IF s = <<>> THEN 0 ELSE 1 + Len(Head(s).children) + WorkLeft(Tail(s))

NoDuplicates(s) == \A i, j \in DOMAIN s : i # j => s[i] # s[j]

C35_DiscoveryTerminates ==
    /\ [][\/ Unvisited' < Unvisited
          \/ Unvisited' = Unvisited /\ WorkLeft(stack') < WorkLeft(stack)]_vars
    /\ [](\A f \in Files : reads[f] <= 1)
    /\ [](/\ returned # NotReturned => NoDuplicates(returned)
          /\ \A i \in DOMAIN stack : NoDuplicates(stack[i].components))
    /\ (stack # <<>>) ~> (stack = <<>> /\ returned # NotReturned)

\* C35 witness: the call has returned for a graph with a cycle (file 2 imports file 1
\* while file 1 is being discovered) and a diamond (file 3 is reached again after it
\* was finished); all three files have loaders and each is returned once.
C35_Witness ==
    /\ returned = <<1, 2, 3>>
    /\ skipped = {<<1, "active">>, <<3, "finished">>}
    /\ reads = [f \in Files |-> IF f \in {1, 2, 3} THEN 1 ELSE 0]
====
